---- MODULE Spec2Model ----
(***************************************************************************)
(* Hybrid on-device / cloud inference demo pages.                          *)
(*                                                                         *)
(* One page wiring is loaded at a time (variable app):                     *)
(*   "try"      main (part_002) + alt-text-generation.js, whose            *)
(*              generateAltText is tryClientSideThenServerSide (part_006), *)
(*              called by generateAltText of common/js/image-upload.js     *)
(*   "altgen"   02hybrid-ai/js/main.js + alt-text-gen.js, called by the    *)
(*              same image-upload.js                                       *)
(*   "moderation"        comment-moderation UI (part_005), cloud only      *)
(*   "hybridModeration"  the same UI calling analyzeComment of             *)
(*              02hybrid-ai/js/comment-moderation.js                       *)
(*                                                                         *)
(* A step of the model is one task of the browser's event loop: a handler  *)
(* or a promise continuation runs up to its next wait on the platform      *)
(* (LanguageModel.availability/create/prompt, fetch, a timer).             *)
(***************************************************************************)
EXTENDS Integers, Sequences, FiniteSets, TLC

\* ---- bounds ----
MaxCalls == 2           \* calls of generateAltText / analyzeComment per behaviour
MaxAnalyses == 3        \* calls of the moderation page's analyzeComment per behaviour
MaxLen == 4             \* tokens of a moderation response text
MaxParts == 2           \* entries of candidates[0].content.parts
MaxSaves == 2           \* calls of saveApiKey per behaviour
MaxPosted == 6          \* calls of savePostedImage per behaviour

\* call ids; a page explores callLimit of them
Calls == 1..(MaxCalls + 1)

ImageApps == {"try", "altgen"}
Apps == ImageApps \cup {"hybridModeration"}

Analyses == 1..(MaxAnalyses + 1)

\* what LanguageModel.availability() answers; "absent" = window.LanguageModel undefined
ModelStatuses == {"absent", "no", "after-download", "downloadable", "downloading", "available"}

VARIABLES
  app,                        \* the page wiring that is loaded
  modelStatus,                \* platform: status of the on-device model
  watched,                    \* the call whose history is recorded
  callLimit,                  \* number of calls explored
  promptApiReady,             \* window.__promptApiReady
  pendingModelDownload,       \* part_006: let pendingModelDownload
  download,                   \* background triggerModelDownload: "none", "creating", "done"
  downloadsStarted,           \* number of triggerModelDownload calls that reached LanguageModel.create
  geminiApiKey,               \* api-key.js: let geminiApiKey ("null" or "AIzaKey")
  currentImageData,           \* image-upload.js (0 = null, else the call whose image is shown)
  currentAltText,             \* image-upload.js: [text, call], text "null" when null
  currentAnalysisController,  \* image-upload.js: 0 = null, else the call owning the controller
  altTextEditor,              \* value of #altTextEditor: [text, call]
  altTextResult,              \* #altTextResult: [kind, msg, call, shown]
  uploadSectionShown,         \* #uploadSection visible
  altTextActionsShown,        \* #altTextActions visible
  btnRegenerateShown,         \* #btnRegenerate visible
  nextCall,                   \* id of the next call
  run,                        \* per call: the state of its orchestrator run
  comment,                    \* part_005: value of the #comment textarea
  commentShown,               \* #comment visible
  btnSubmit,                  \* #btnSubmit: [shown, disabled]
  suggestionActionsShown,     \* #suggestionActions visible
  originalProblematicComment, \* part_005: let originalProblematicComment ("null" when null)
  status,                     \* #status: [type, message]
  commentsList,               \* texts appended to #commentsList
  nextAnalysis,               \* id of the next analyzeComment call of the moderation page
  analysis,                   \* per analyzeComment call: [pc, comment, by]
  lastResponse,               \* what the analysis that settled last decoded: [call, shape]
  approved,                   \* texts whose analysis completed with isProblematic false
  probes,                     \* what checkPromptApiAvailability answered: [platform, status]
  workaround,                 \* main's 2 s timer that tries LanguageModel.create
  responseText,               \* part_005 analyzeComment: const responseText
  parsed,                     \* what analyzeComment returned or threw for responseText
  data,                       \* parseGeminiResponse: its argument data
  extracted,                  \* what parseGeminiResponse returned or threw for data
  storedApiKey,               \* localStorage item 'geminiApiKey' ("null" when there is none)
  apiKeySection,              \* #apiKeySection: "shown" or "removed"
  apiKeyInput,                \* value of #apiKeyInput: [text, padded]
  saved,                      \* calls of saveApiKey so far and what the last returned
  postedImagesItem,           \* localStorage item 'postedImages': [kind, text]
  posted                      \* the images passed to savePostedImage, newest first

platformVars == <<modelStatus, promptApiReady,
                  pendingModelDownload, download, downloadsStarted, geminiApiKey>>
uploadVars == <<currentImageData, currentAltText, currentAnalysisController,
                altTextEditor, altTextResult, altTextActionsShown, btnRegenerateShown>>
deliveryVars == <<currentAltText, currentAnalysisController, altTextEditor,
                  altTextResult, altTextActionsShown, btnRegenerateShown>>
formVars == <<comment, commentShown, btnSubmit, suggestionActionsShown,
              originalProblematicComment, status, commentsList>>
moderationVars == <<formVars, nextAnalysis, analysis, lastResponse, approved>>
imageVars == <<uploadVars, uploadSectionShown, nextCall, run>>
\* state of the helpers that are exercised on their own
keyFormVars == <<storedApiKey, apiKeySection, apiKeyInput, saved>>
storageVars == <<postedImagesItem, posted>>
helperVars == <<responseText, parsed, data, extracted, keyFormVars, storageVars>>
vars == <<app, watched, callLimit, helperVars, probes, workaround, platformVars, imageVars, moderationVars>>

\* ---- values ----
NoOutcome == [kind |-> "none", val |-> ""]
Ok(v) == [kind |-> "ok", val |-> v]
Err(m) == [kind |-> "err", val |-> m]

NullText == [text |-> "null", call |-> 0]
EmptyText == [text |-> "", call |-> 0]

IdleRun == [pc |-> "idle", aborted |-> FALSE, status |-> "none",
            devCalls |-> 0, cloudCalls |-> 0, fetches |-> 0,
            dev |-> "none", devOut |-> NoOutcome, cloudOut |-> NoOutcome,
            session |-> "none", destroys |-> 0, result |-> NoOutcome,
            superseded |-> FALSE, activation |-> "none", creates |-> 0,
            attempt |-> "none", createResult |-> "none",
            response |-> "none"]

\* the history of a run (what the probe said, which executors it invoked and what
\* they returned) is recorded for the watched call only; the other calls keep
\* the state the program itself holds: a call that settled and whose on-device
\* work ended, or has only session.prompt and session.destroy left, can change
\* nothing the page holds, and of a call that settled while LanguageModel.create
\* is pending only that work is left
RetiredRun == [IdleRun EXCEPT !.pc = "retired"]
Recorded(c, r) ==
  IF c = watched THEN r
  ELSE IF r.pc = "done" /\ r.dev \in {"none", "finished", "prompt"} THEN RetiredRun
  ELSE IF r.pc = "done" THEN [IdleRun EXCEPT !.pc = "done", !.dev = r.dev,
                                              !.session = r.session]
  ELSE [r EXCEPT !.status = "none", !.devCalls = 0, !.cloudCalls = 0, !.fetches = 0,
                 !.devOut = NoOutcome, !.cloudOut = NoOutcome, !.destroys = 0,
                 !.result = NoOutcome, !.superseded = FALSE,
                 !.activation = "none", !.creates = 0, !.attempt = "none",
                 !.createResult = "none", !.response = "none"]

\* ---- on-device helpers (part_006, part_004) ----

\* part_006 checkPromptApiAvailability: the switch over LanguageModel.availability()
SwitchAvailabilityClientSide(a) ==
  CASE a \in {"readily", "available"} -> "ready"
    [] a \in {"after-download", "downloadable"} -> "needsDownload"
    [] a = "downloading" -> "downloading"
    [] OTHER -> "unavailable"

\* part_004 checkPromptApiAvailability: 'no' and default share one branch
SwitchAvailabilityClientside(a) ==
  CASE a \in {"readily", "available"} -> "ready"
    [] a = "after-download" -> "needsDownload"
    [] OTHER -> "unavailable"

checkPromptApiAvailability(a) ==
  IF app = "try" THEN SwitchAvailabilityClientSide(a) ELSE SwitchAvailabilityClientside(a)

StatusAvailable(st) == st \in {"ready", "needsDownload", "downloading"}
StatusReady(st) == st = "ready"

isPromptApiAvailable == modelStatus # "absent"

\* a gate that lets a call without user activation reach LanguageModel.create
SessionGateIgnoringActivation(act) == isPromptApiAvailable

\* createPromptApiSession up to its await: API present and user activation active
SessionGate(act) == isPromptApiAvailable /\ act

\* words of a model response that the "did not see the image" check looks for
HeuristicWords == {"provide", "image", "can't see", "need"}
DeviceResponses ==
  {[words |-> w, blank |-> FALSE] : w \in SUBSET HeuristicWords}
    \cup {[words |-> {}, blank |-> TRUE]}

\* generateClientAltText: the includes() test on the lower-cased response
LooksLikeNonAnswer(w) ==
  \/ ("provide" \in w /\ "image" \in w)
  \/ "can't see" \in w
  \/ ("need" \in w /\ "image" \in w)

\* parsePromptApiResponse: trim, throw when nothing is left
parsePromptApiResponse(resp) ==
  IF resp.blank THEN Err("No response text found") ELSE Ok("DEV")

\* generateClientAltText after session.prompt resolved with resp
ClientAltTextOf(resp) ==
  IF LooksLikeNonAnswer(resp.words)
    THEN Err("Prompt API did not process the image successfully")
    ELSE parsePromptApiResponse(resp)

\* shapes of a model response to the moderation prompt: blank, a JSON object in
\* prose, or text holding a backslash before each brace
ModerationDeviceResponses == {"blank", "json", "escapedJson"}

\* the regular expression literal /\\{[\\s\\S]*\\}/ of analyzeClientComment asks
\* for a backslash before each brace
MatchesEscapedBraces(resp) == resp = "escapedJson"

\* analyzeClientComment after session.prompt resolved with resp
analyzeClientCommentOf(resp) ==
  IF resp = "blank"
    THEN [out |-> Err("No response text found"), destroys |-> 1]
    ELSE IF MatchesEscapedBraces(resp)
      \* JSON.parse of a text that starts with a backslash throws
      THEN [out |-> Err("Invalid response format from local AI: SyntaxError"),
            destroys |-> 2]
      ELSE [out |-> Err("Invalid response format from local AI: no JSON object found"),
            destroys |-> 2]

\* ---- the orchestrators ----

Finish(r, res) == [r EXCEPT !.pc = "done", !.result = res]

\* generateGeminiAltText of alt-text-generation.js: key check, then fetch
generateGeminiAltTextChecked(r) ==
  LET r1 == [r EXCEPT !.cloudCalls = @ + 1] IN
  IF geminiApiKey = "null"
    THEN Finish([r1 EXCEPT !.cloudOut = Err("Please configure your Google AI API key first")],
                Err("Please configure your Google AI API key first"))
    ELSE IF r1.aborted
      THEN Finish([r1 EXCEPT !.cloudOut = Err("AbortError")], Err("AbortError"))
      ELSE [r1 EXCEPT !.pc = "cloud", !.fetches = @ + 1]

\* generateGeminiAltText of alt-text-gen.js: abort check, then fetch (no key check)
generateGeminiAltTextUnchecked(r) ==
  LET r1 == [r EXCEPT !.cloudCalls = @ + 1] IN
  IF r1.aborted
    THEN Finish([r1 EXCEPT !.cloudOut = Err("Operation was cancelled")],
                Err("Operation was cancelled"))
    ELSE [r1 EXCEPT !.pc = "cloud", !.fetches = @ + 1]

\* analyzeComment of comment-moderation.js awaits analyzeCommentWithGemini
analyzeCommentWithGemini(r) == [r EXCEPT !.cloudCalls = @ + 1, !.pc = "cloud"]

\* a fall-back that calls the cloud executor without looking at the signal first
FallBackToCloudUnguarded(r) ==
  CASE app = "try" -> generateGeminiAltTextChecked(r)
    [] app = "altgen" -> generateGeminiAltTextUnchecked(r)
    [] OTHER -> analyzeCommentWithGemini(r)

\* the step "fall back to server-side AI" of each orchestrator
FallBackToCloud(r) ==
  CASE app = "try" -> generateGeminiAltTextChecked(r)
    [] app = "altgen" ->
         IF r.aborted
           THEN Finish(r, Err("Operation was cancelled"))
           ELSE generateGeminiAltTextUnchecked(r)
    [] OTHER -> analyzeCommentWithGemini(r)

CatchClientErrorRethrows(r, e) == Finish([r EXCEPT !.devOut = e], e)
\* the catch block around the on-device attempt
CatchClientError(r, e) ==
  LET r1 == [r EXCEPT !.devOut = e] IN
  IF app = "altgen" /\ (e.val = "AbortError" \/ r1.aborted)
    THEN Finish(r1, e)
    ELSE FallBackToCloud(r1)

\* is the orchestrator still awaiting the on-device attempt?
AwaitingClient(r) == r.pc \in {"race", "device"}

\* what the on-device executor throws when createPromptApiSession returned null
NoSessionError(act) ==
  IF app # "altgen" /\ isPromptApiAvailable /\ ~act
    THEN Err("User interaction required")
    ELSE Err("Failed to create Prompt API session")

\* what the on-device executor throws when LanguageModel.create rejected:
\* the catch block of part_006's createPromptApiSession reads startTime, which
\* is declared inside the try block, and so throws a ReferenceError
CreateFailedError(act) ==
  IF app = "try" THEN Err("startTime is not defined") ELSE NoSessionError(act)

\* how createPromptApiSession settles when LanguageModel.create rejected:
\* part_004's catch block returns null, part_006's throws out of the function
createPromptApiSessionCatch == IF app = "try" THEN "rejected" ELSE "null"

\* the on-device executor up to LanguageModel.create
InvokeClient(r, act) ==
  LET r1 == [r EXCEPT !.devCalls = @ + 1,
                      !.activation = IF act THEN "active" ELSE "inactive"] IN
  IF SessionGate(act)
    THEN [r1 EXCEPT !.pc = IF app = "try" THEN "race" ELSE "device", !.dev = "create",
                    !.creates = @ + 1]
    ELSE CatchClientError([r1 EXCEPT !.dev = "finished", !.createResult = "null"],
                          NoSessionError(act))

ShouldTryClientWhenReady(st) == st \in {"ready", "present"}
\* the branch the orchestrator takes on the probe's answer
ShouldTryClient(st) ==
  CASE app = "try" -> StatusAvailable(st)
    [] app = "altgen" -> StatusAvailable(st) /\ StatusReady(st)
    [] OTHER -> st = "present"

AfterProbeTryingClient(r, st, act) == InvokeClient([r EXCEPT !.status = st], act)
AfterProbe(r, st, act) ==
  LET r1 == [r EXCEPT !.status = st] IN
  IF ShouldTryClient(st) THEN InvokeClient(r1, act) ELSE FallBackToCloud(r1)

\* the run from its call to its first wait on the platform
BeginRun(r, act) ==
  CASE app = "hybridModeration" ->
         AfterProbe(r, IF isPromptApiAvailable THEN "present" ELSE "unavailable", act)
    [] app = "try" /\ promptApiReady -> AfterProbe(r, "ready", act)
    [] OTHER ->
         IF ~isPromptApiAvailable
           THEN AfterProbe(r, "unavailable", act)
           ELSE [r EXCEPT !.pc = "probe"]

\* checkPromptApiAvailability returned st
ProbeAnswered(st) == probes \cup {[platform |-> modelStatus, status |-> st]}

\* ---- common/js/image-upload.js ----

LoadingResult(c) == [kind |-> "loading", msg |-> "", call |-> c, shown |-> TRUE]

\* does the value of `await aiGenerator(...)` take generateAltText's success branch?
HasAltText(res) == res.kind = "ok" /\ res.val # ""

\* updateAltTextResult for the text generateAltText's catch block passes
ErrorResult(c, res) ==
  IF res.kind = "err" /\ res.val = "AbortError"
    THEN [kind |-> "cancelled", msg |-> "Analysis cancelled", call |-> c, shown |-> TRUE]
    ELSE [kind |-> "error",
          msg |-> IF res.kind = "ok" THEN "No alt text generated" ELSE res.val,
          call |-> c, shown |-> TRUE]

\* generateAltText after `await aiGenerator(...)` settled with res: the success
\* branch, the catch block and the finally block.  preResult and preRegen are the
\* result area and the regenerate button as the continuation finds them.
DeliverAltText(c, res, preResult, preRegen) ==
  /\ currentAnalysisController' = 0
  /\ IF HasAltText(res)
       THEN /\ currentAltText' = [text |-> res.val, call |-> c]
            /\ altTextEditor' = [text |-> res.val, call |-> c]
            /\ altTextResult' = [preResult EXCEPT !.shown = FALSE]
            /\ altTextActionsShown' = TRUE
            /\ btnRegenerateShown' = TRUE
       ELSE /\ altTextResult' = ErrorResult(c, res)
            /\ altTextActionsShown' = FALSE
            /\ btnRegenerateShown' = preRegen
            /\ UNCHANGED <<currentAltText, altTextEditor>>

\* a continuation of run c ended in record r: store it and, when the run has
\* settled, resume image-upload's generateAltText
Resume(c, r) ==
  /\ run' = [run EXCEPT ![c] = Recorded(c, r)]
  /\ IF app \in ImageApps /\ r.pc = "done" /\ run[c].pc # "done"
       THEN DeliverAltText(c, r.result, altTextResult, btnRegenerateShown)
       ELSE UNCHANGED deliveryVars

\* generateAltText aborts the controller it finds in currentAnalysisController
AbortPrevious(k) == k = currentAnalysisController

\* has run record r not settled yet?
InFlight(r) == r.pc \in {"probe", "race", "device", "cloud"}

\* run k as a new call of generateAltText leaves it
Superseding(k) ==
  LET r == IF AbortPrevious(k) THEN [run[k] EXCEPT !.aborted = TRUE] ELSE run[k] IN
  IF k = watched /\ InFlight(r) THEN [r EXCEPT !.superseded = TRUE] ELSE r

\* an attemptPendingDownload that starts the download whenever the flag is set
DownloadStartsWithoutActivation(act) == app = "try" /\ pendingModelDownload

\* attemptPendingDownload starts triggerModelDownload in the background
DownloadStarts(act) == app = "try" /\ pendingModelDownload /\ act

\* what attemptPendingDownload read: nothing past the flag when no download is
\* pending, else navigator.userActivation.isActive
AttemptSeen(act) ==
  IF app = "try" /\ pendingModelDownload
    THEN (IF act THEN "active" ELSE "inactive")
    ELSE "none"

\* generateAltText(imageData) of image-upload.js for call c, through the injected
\* generator, up to the first wait on the platform.  act is the user activation
\* and preActions the visibility of #altTextActions the call finds.
StartAnalysis(c, act, preActions) ==
  LET r == BeginRun([IdleRun EXCEPT !.attempt = AttemptSeen(act)], act) IN
  /\ nextCall' = c + 1
  /\ probes' = IF r.status # "none" THEN ProbeAnswered(r.status) ELSE probes
  /\ run' = [k \in Calls |->
               IF k = c THEN Recorded(c, r) ELSE Superseding(k)]
  /\ IF DownloadStarts(act)
       THEN /\ pendingModelDownload' = FALSE
            /\ download' = "creating"
            /\ downloadsStarted' = downloadsStarted + 1
       ELSE UNCHANGED <<pendingModelDownload, download, downloadsStarted>>
  /\ IF r.pc = "done"
       THEN DeliverAltText(c, r.result, LoadingResult(c), FALSE)
       ELSE /\ currentAnalysisController' = c
            /\ altTextResult' = LoadingResult(c)
            /\ btnRegenerateShown' = FALSE
            /\ altTextActionsShown' = preActions
            /\ UNCHANGED <<currentAltText, altTextEditor>>

\* handleFile: FileReader onload shows the preview and starts the analysis
handleFile ==
  /\ app \in ImageApps
  /\ uploadSectionShown
  /\ nextCall <= callLimit
  /\ currentImageData' = nextCall
  /\ \E act \in BOOLEAN : StartAnalysis(nextCall, act, altTextActionsShown)
  /\ UNCHANGED <<app, watched, callLimit, helperVars, workaround, moderationVars, modelStatus, promptApiReady,
                 geminiApiKey, uploadSectionShown>>

\* click on #btnRegenerate (ui-helpers.js setupEventListenersInternal)
regenerate ==
  /\ app \in ImageApps
  /\ uploadSectionShown
  /\ btnRegenerateShown /\ altTextActionsShown
  /\ IF currentImageData # 0
       THEN /\ nextCall <= callLimit
            /\ StartAnalysis(nextCall, TRUE, FALSE)
       ELSE /\ altTextResult' = [kind |-> "error", msg |-> "Unable to regenerate",
                                 call |-> 0, shown |-> TRUE]
            /\ UNCHANGED <<nextCall, run, pendingModelDownload, download, downloadsStarted,
                           probes, currentAltText, currentAnalysisController, altTextEditor,
                           altTextActionsShown, btnRegenerateShown>>
  /\ UNCHANGED <<app, watched, callLimit, helperVars, workaround, moderationVars, modelStatus,
                 promptApiReady, geminiApiKey, uploadSectionShown, currentImageData>>

\* cancelImageSelection
cancelImageSelection ==
  /\ app \in ImageApps
  /\ uploadSectionShown
  /\ currentImageData # 0
  /\ run' = [k \in Calls |->
               IF k = currentAnalysisController THEN [run[k] EXCEPT !.aborted = TRUE]
               ELSE run[k]]
  /\ altTextActionsShown' = FALSE
  /\ altTextResult' = [kind |-> "loading", msg |-> "", call |-> 0, shown |-> TRUE]
  /\ altTextEditor' = EmptyText
  /\ currentImageData' = 0
  /\ currentAltText' = NullText
  /\ UNCHANGED <<app, watched, callLimit, helperVars, probes, workaround, moderationVars, modelStatus, promptApiReady, pendingModelDownload,
                 download, downloadsStarted, geminiApiKey, uploadSectionShown,
                 currentAnalysisController, btnRegenerateShown, nextCall>>

\* a caller of comment-moderation.js calls analyzeComment(comment)
analyzeCommentCall ==
  /\ app = "hybridModeration"
  /\ nextCall <= callLimit
  /\ nextCall' = nextCall + 1
  /\ \E act \in BOOLEAN :
       run' = [run EXCEPT ![nextCall] = Recorded(nextCall, BeginRun(IdleRun, act))]
  /\ UNCHANGED <<app, watched, callLimit, helperVars, probes, workaround, moderationVars, platformVars, uploadVars, uploadSectionShown>>

\* ---- continuations of a run ----

\* LanguageModel.availability() answers while checkPromptApiAvailability awaits it
ProbeReturns(c) ==
  /\ run[c].pc = "probe"
  /\ \E threw \in BOOLEAN, act \in BOOLEAN :
       LET st == IF threw THEN "unavailable" ELSE checkPromptApiAvailability(modelStatus) IN
       /\ Resume(c, AfterProbe(run[c], st, act))
       \* an answer given because LanguageModel.availability() threw says
       \* nothing about the model's status and is not kept
       /\ probes' = IF threw THEN probes ELSE ProbeAnswered(st)
  /\ UNCHANGED <<app, watched, callLimit, helperVars, workaround, moderationVars, platformVars, currentImageData, uploadSectionShown, nextCall>>

NeverDestroyed(r, n) == [r EXCEPT !.dev = "finished"]
\* the session is released in the executor's catch block or before its return;
\* n counts the session.destroy() calls the path makes
DestroyedTimes(r, n) ==
  [r EXCEPT !.session = "destroyed", !.destroys = @ + n, !.dev = "finished"]
Destroyed(r) == DestroyedTimes(r, 1)

\* LanguageModel.create settles inside createPromptApiSession
CreateSettles(c) ==
  /\ run[c].dev = "create"
  /\ \E created \in BOOLEAN, act \in BOOLEAN :
       LET r == run[c] IN
       /\ promptApiReady' = IF created /\ app = "try" THEN TRUE ELSE promptApiReady
       /\ IF created
            THEN LET r1 == [r EXCEPT !.session = "live", !.createResult = "session"] IN
                 IF r1.aborted
                   \* session.prompt rejects at once on an aborted signal
                   THEN IF AwaitingClient(r1)
                          THEN Resume(c, CatchClientError(Destroyed(r1), Err("AbortError")))
                          ELSE Resume(c, Destroyed(r1))
                   ELSE Resume(c, [r1 EXCEPT !.dev = "prompt"])
            ELSE LET r1 == [r EXCEPT !.dev = "finished",
                                     !.createResult = createPromptApiSessionCatch] IN
                 IF AwaitingClient(r1)
                   THEN Resume(c, CatchClientError(r1, CreateFailedError(act)))
                   ELSE Resume(c, r1)
  /\ UNCHANGED <<app, watched, callLimit, helperVars, probes, workaround, moderationVars, modelStatus, pendingModelDownload,
                 download, downloadsStarted, geminiApiKey, currentImageData,
                 uploadSectionShown, nextCall>>

\* what the on-device executor makes of each way session.prompt can settle:
\* the value it returns or throws and the session.destroy() calls on the way
PromptOutcomes(r) ==
  IF r.aborted THEN {[out |-> Err("AbortError"), destroys |-> 1, response |-> "none"]}
  ELSE IF app = "hybridModeration"
    THEN {[out |-> Err("prompt failed"), destroys |-> 1, response |-> "none"]}
           \cup {[out |-> analyzeClientCommentOf(resp).out,
                  destroys |-> analyzeClientCommentOf(resp).destroys,
                  response |-> resp] : resp \in ModerationDeviceResponses}
    ELSE {[out |-> Err("prompt failed"), destroys |-> 1, response |-> "none"]}
           \cup {[out |-> ClientAltTextOf(resp), destroys |-> 1, response |-> "none"] :
                    resp \in DeviceResponses}

ClientSucceededThenCloud(r, v) == FallBackToCloud([r EXCEPT !.devOut = v])
\* the on-device attempt returned v to the orchestrator
ClientSucceeded(r, v) == Finish([r EXCEPT !.devOut = v], v)

\* session.prompt settles inside generateClientAltText
PromptSettles(c) ==
  /\ run[c].dev = "prompt"
  /\ \E o \in PromptOutcomes(run[c]) :
       LET r1 == [DestroyedTimes(run[c], o.destroys) EXCEPT !.response = o.response] IN
       IF AwaitingClient(r1)
         THEN IF o.out.kind = "ok"
                THEN Resume(c, ClientSucceeded(r1, o.out))
                ELSE Resume(c, CatchClientError(r1, o.out))
         ELSE Resume(c, r1)
  /\ UNCHANGED <<app, watched, callLimit, helperVars, probes, workaround, moderationVars, platformVars, currentImageData, uploadSectionShown, nextCall>>

TimerNeverFires(c) == run[c].pc = "never" /\ UNCHANGED vars
\* the 5 s timer of tryClientSideThenServerSide wins the race
TimerFires(c) ==
  /\ app = "try"
  /\ run[c].pc = "race"
  /\ Resume(c, CatchClientError(run[c], Err("Client-side timeout")))
  /\ UNCHANGED <<app, watched, callLimit, helperVars, probes, workaround, moderationVars, platformVars, currentImageData, uploadSectionShown, nextCall>>

\* what the cloud executor can return or throw once its fetch settles
CloudOutcomes(r) ==
  IF r.aborted THEN {Err("AbortError")}
  ELSE IF app = "hybridModeration" THEN {Ok("VERDICT"), Err("API error")}
  ELSE {Ok("CLOUD"), Ok(""), Err("API error")}

CloudSettledSwallowed(r, out) ==
  Finish([r EXCEPT !.cloudOut = out],
         IF out.kind = "err" THEN Err("Something went wrong") ELSE out)
\* the orchestrator returns what the cloud executor returned or threw
CloudSettled(r, out) == Finish([r EXCEPT !.cloudOut = out], out)

\* fetch (and the reading of its body) settles inside generateGeminiAltText
FetchSettles(c) ==
  /\ run[c].pc = "cloud"
  /\ \E out \in CloudOutcomes(run[c]) : Resume(c, CloudSettled(run[c], out))
  /\ UNCHANGED <<app, watched, callLimit, helperVars, probes, workaround, moderationVars, platformVars, currentImageData, uploadSectionShown, nextCall>>

\* ---- the comment-moderation page (part_005) ----

\* what the user types, and the suggestion a flagged verdict carries
UserComments == {"Hate it!", "Nice shot"}
SuggestedText == "Lovely colours"

\* a response text is a sequence of tokens: a word of prose, a brace, the members
\* "isProblematic":true,"reason":..,"suggestion":.. (T) or "isProblematic":false (F)
Tokens == {"p", "{", "}", "T", "F"}
ResponseTexts == UNION {[1..n -> Tokens] : n \in 1..MaxLen}

Verdict(p, sug) == [kind |-> "ok", msg |-> "", isProblematic |-> p, suggestion |-> sug]
Failure(m) == [kind |-> "err", msg |-> m, isProblematic |-> "undefined",
               suggestion |-> "undefined"]

Positions(t, tok) == {i \in 1..Len(t) : t[i] = tok}
Lowest(S) == CHOOSE i \in S : \A j \in S : i <= j
Highest(S) == CHOOSE i \in S : \A j \in S : i >= j

JsonMatchWholeText(t) == t
\* responseText.match(/\{[\s\S]*\}/): from the first "{" to the last "}" after
\* it; <<>> when there is no match
JsonMatch(t) ==
  IF Positions(t, "{") = {} \/ Positions(t, "}") = {} THEN <<>>
  ELSE IF Highest(Positions(t, "}")) < Lowest(Positions(t, "{")) THEN <<>>
  ELSE SubSeq(t, Lowest(Positions(t, "{")), Highest(Positions(t, "}")))

\* JSON.parse of the matched text
JsonParse(m) ==
  CASE m = <<"{", "}">> -> Verdict("undefined", "undefined")
    [] m = <<"{", "T", "}">> -> Verdict("true", SuggestedText)
    [] m = <<"{", "F", "}">> -> Verdict("false", "undefined")
    [] OTHER -> Failure("SyntaxError")

\* analyzeComment after parseGeminiResponse returned the text t
analyzeCommentOf(t) ==
  IF JsonMatch(t) = <<>>
    THEN Failure("Invalid response format from AI: no JSON object found")
    ELSE IF JsonParse(JsonMatch(t)).kind = "err"
      THEN Failure("Invalid response format from AI: SyntaxError")
      ELSE JsonParse(JsonMatch(t))

\* what a response text holds, whatever the code makes of it
ShapeOf(t) ==
  IF JsonMatch(t) = <<>> \/ JsonParse(JsonMatch(t)).kind = "err" THEN "undecodable"
  ELSE IF JsonParse(JsonMatch(t)).isProblematic = "undefined" THEN "missingField"
  ELSE IF JsonParse(JsonMatch(t)).isProblematic = "true" THEN "problematic"
  ELSE "notProblematic"

\* the ways `await analyzeComment(...)` settles
ModerationOutcomes ==
  {[out |-> Failure("API error"), shape |-> "apiError"]}
    \cup {[out |-> analyzeCommentOf(t), shape |-> ShapeOf(t)] : t \in ResponseTexts}

Truthy(v) == v \notin {"undefined", "false", "null", ""}

IdleAnalysis == [pc |-> "idle", comment |-> "", by |-> "none"]
DoneAnalysis == [pc |-> "done", comment |-> "", by |-> "none"]

NoStatus == [type |-> "", message |-> ""]

\* updateSubmitButton (ui-helpers.js) for the textarea value text
SubmitDisabled(text) == geminiApiKey = "null" \/ text = ""

hideCommentForm ==
  /\ commentShown' = FALSE
  /\ btnSubmit' = [btnSubmit EXCEPT !.shown = FALSE]

showCommentForm ==
  /\ commentShown' = TRUE
  /\ btnSubmit' = [shown |-> TRUE, disabled |-> SubmitDisabled(comment)]
  /\ suggestionActionsShown' = FALSE
  /\ UNCHANGED <<comment, originalProblematicComment>>

resetCommentForm ==
  /\ comment' = ""
  /\ commentShown' = TRUE
  /\ btnSubmit' = [shown |-> TRUE, disabled |-> SubmitDisabled("")]
  /\ suggestionActionsShown' = FALSE

showSuggestionForm(suggestion, originalComment) ==
  /\ originalProblematicComment' =
       IF Truthy(originalComment) THEN originalComment ELSE comment
  /\ comment' = suggestion
  /\ commentShown' = TRUE
  /\ btnSubmit' = [btnSubmit EXCEPT !.shown = FALSE]
  /\ suggestionActionsShown' = TRUE

\* analyzeComment(text) of part_005 up to its fetch, as call c
StartAnalyzeComment(c, text, caller) ==
  /\ nextAnalysis' = c + 1
  /\ analysis' = [analysis EXCEPT ![c] = [pc |-> "fetch", comment |-> text, by |-> caller]]

\* the input listener of #comment: the user edits the textarea
typeComment(t) ==
  /\ app = "moderation"
  /\ commentShown
  /\ t # comment
  /\ comment' = t
  /\ btnSubmit' = [btnSubmit EXCEPT !.disabled = SubmitDisabled(t)]
  /\ UNCHANGED <<app, watched, callLimit, helperVars, probes, workaround, platformVars, imageVars, commentShown,
                 suggestionActionsShown, originalProblematicComment, status, commentsList,
                 nextAnalysis, analysis, lastResponse, approved>>

\* handleCommentSubmit up to `await analyzeComment(...)`
handleCommentSubmit ==
  /\ app = "moderation"
  /\ btnSubmit.shown /\ ~btnSubmit.disabled
  /\ nextAnalysis <= MaxAnalyses
  /\ IF comment = ""
       THEN UNCHANGED <<commentShown, btnSubmit, status, nextAnalysis, analysis>>
       ELSE /\ hideCommentForm
            /\ status' = [type |-> "checking", message |-> "Analyzing your comment"]
            /\ StartAnalyzeComment(nextAnalysis, comment, "handleCommentSubmit")
  /\ UNCHANGED <<app, watched, callLimit, helperVars, probes, workaround, platformVars, imageVars, comment,
                 suggestionActionsShown, originalProblematicComment, commentsList,
                 lastResponse, approved>>

\* handleCommentSubmit after `await analyzeComment(text)` settled with out
handleCommentSubmitResumes(text, out) ==
  IF out.kind = "err"
    THEN /\ status' = [type |-> "error", message |-> out.msg]
         /\ showCommentForm
         /\ UNCHANGED commentsList
    ELSE IF Truthy(out.isProblematic)
      THEN /\ status' = [type |-> "blocked", message |-> "Consider Revising"]
           /\ showSuggestionForm(out.suggestion, "null")
           /\ UNCHANGED commentsList
      ELSE /\ commentsList' = Append(commentsList, text)
           /\ status' = NoStatus
           /\ resetCommentForm
           /\ UNCHANGED originalProblematicComment

\* regenerateSuggestion up to analyzeComment(...).then
regenerateSuggestion ==
  /\ app = "moderation"
  /\ suggestionActionsShown
  /\ IF ~Truthy(originalProblematicComment)
       THEN /\ status' = [type |-> "error", message |-> "Unable to regenerate suggestion"]
            /\ UNCHANGED <<commentShown, btnSubmit, nextAnalysis, analysis>>
       ELSE /\ nextAnalysis <= MaxAnalyses
            /\ hideCommentForm
            /\ status' = [type |-> "checking", message |-> "Generating a new suggestion"]
            /\ StartAnalyzeComment(nextAnalysis, originalProblematicComment,
                                   "regenerateSuggestion")
  /\ UNCHANGED <<app, watched, callLimit, helperVars, probes, workaround, platformVars, imageVars, comment,
                 suggestionActionsShown, originalProblematicComment, commentsList,
                 lastResponse, approved>>

\* the then and catch callbacks of regenerateSuggestion
regenerateSuggestionResumes(text, out) ==
  /\ UNCHANGED commentsList
  /\ IF out.kind = "err"
       THEN /\ status' = [type |-> "error", message |-> out.msg]
            /\ showCommentForm
       ELSE IF Truthy(out.isProblematic) /\ Truthy(out.suggestion)
         THEN /\ status' = [type |-> "blocked", message |-> "Consider Revising"]
              /\ showSuggestionForm(out.suggestion, text)
         ELSE /\ status' = [type |-> "error",
                            message |-> "Unable to generate a new suggestion"]
              /\ showCommentForm

\* the fetch of an analyzeComment call settles and its caller resumes
AnalysisSettles(c) ==
  /\ analysis[c].pc = "fetch"
  /\ \E o \in ModerationOutcomes :
       /\ lastResponse' = [call |-> c, shape |-> o.shape]
       /\ approved' = IF o.out.kind = "ok" /\ o.out.isProblematic = "false"
                        THEN approved \cup {analysis[c].comment} ELSE approved
       /\ IF analysis[c].by = "handleCommentSubmit"
            THEN handleCommentSubmitResumes(analysis[c].comment, o.out)
            ELSE regenerateSuggestionResumes(analysis[c].comment, o.out)
  /\ analysis' = [analysis EXCEPT ![c] = DoneAnalysis]
  /\ UNCHANGED <<app, watched, callLimit, helperVars, probes, workaround, platformVars, imageVars, nextAnalysis>>

\* click on "Submit" of #suggestionActions
submitSuggestion ==
  /\ app = "moderation"
  /\ suggestionActionsShown
  /\ commentsList' = Append(commentsList, comment)
  /\ status' = NoStatus
  /\ resetCommentForm
  /\ UNCHANGED <<app, watched, callLimit, helperVars, probes, workaround, platformVars, imageVars,
                 originalProblematicComment, nextAnalysis, analysis, lastResponse,
                 approved>>

\* click on "Cancel" of #suggestionActions
cancelSuggestion ==
  /\ app = "moderation"
  /\ suggestionActionsShown
  /\ originalProblematicComment' = "null"
  /\ status' = NoStatus
  /\ resetCommentForm
  /\ UNCHANGED <<app, watched, callLimit, helperVars, probes, workaround, platformVars, imageVars, commentsList,
                 nextAnalysis, analysis, lastResponse, approved>>

\* analyzeComment of part_005 from `const responseText = parseGeminiResponse(..)`
\* to its return or throw
analyzeCommentDecodes ==
  /\ parsed.kind = "pending"
  /\ parsed' = analyzeCommentOf(responseText)
  /\ UNCHANGED <<app, watched, callLimit, probes, workaround, storageVars, responseText, data, extracted,
                 keyFormVars, platformVars, imageVars, moderationVars>>

\* ---- parseGeminiResponse (gemini-helpers.js, ui-helpers.js) ----

\* a field of the response: missing, the empty string, or the text v
FieldValues(v) == {"undefined", "", v}

\* candidates[0].content.parts: missing, something that is no array, or an array
\* of parts whose text is missing, empty, or one of two texts
PartsValues ==
  {[kind |-> k, items |-> <<>>] : k \in {"undefined", "notArray"}}
    \cup {[kind |-> "array", items |-> s] :
            s \in UNION {[1..n -> {"undefined", "", "PART1", "PART2"}] : n \in 0..MaxParts}}

NoContent == [present |-> FALSE, parts |-> [kind |-> "undefined", items |-> <<>>],
              text |-> "undefined"]

Candidates ==
  [content : {NoContent} \cup [present : {TRUE}, parts : PartsValues,
                               text : FieldValues("CONTENT_TEXT")],
   text : FieldValues("TEXT"),
   output : FieldValues("OUTPUT"),
   finishReason : {"undefined", "STOP", "MAX_TOKENS"}]

NoCandidate == [content |-> NoContent, text |-> "undefined", output |-> "undefined",
                finishReason |-> "undefined"]

\* the values of data: null, an object without candidates, or with one candidate
GeminiData ==
  {[kind |-> k, candidate |-> NoCandidate] : k \in {"null", "noCandidates"}}
    \cup {[kind |-> "candidates", candidate |-> c] : c \in Candidates}

\* the for loop over candidate.content.parts: the text of the first part whose
\* text is truthy, null when there is none
PartsText(candidate) ==
  LET parts == candidate.content.parts
      hits == {i \in 1..Len(parts.items) : Truthy(parts.items[i])} IN
  IF candidate.content.present /\ parts.kind = "array" /\ hits # {}
    THEN parts.items[Lowest(hits)]
    ELSE "null"

FallbackTextOutputFirst(candidate) ==
  IF Truthy(candidate.output) THEN candidate.output
  ELSE IF Truthy(candidate.text) THEN candidate.text
  ELSE IF Truthy(candidate.content.text) THEN candidate.content.text
  ELSE "null"
\* the if / else if chain "fallback to other possible structures"
FallbackText(candidate) ==
  IF Truthy(candidate.content.text) THEN candidate.content.text
  ELSE IF Truthy(candidate.text) THEN candidate.text
  ELSE IF Truthy(candidate.output) THEN candidate.output
  ELSE "null"

\* the error parseGeminiResponse throws when it found no text
NoTextError(d) ==
  IF d.kind = "candidates" /\ d.candidate.finishReason = "MAX_TOKENS"
    THEN Err("response was truncated and no readable content was found")
    ELSE IF d.kind = "candidates" /\ Truthy(d.candidate.finishReason)
      THEN Err("response finished with reason")
      ELSE Err("No response text found")

parseGeminiResponse(d) ==
  IF d.kind = "null" THEN Err("Response data must be an object")
  ELSE LET respText ==
             IF d.kind # "candidates" THEN "null"
             ELSE IF Truthy(PartsText(d.candidate)) THEN PartsText(d.candidate)
             ELSE FallbackText(d.candidate) IN
       IF Truthy(respText) THEN Ok(respText) ELSE NoTextError(d)

\* a caller passes data to parseGeminiResponse
parseGeminiResponseReturns ==
  /\ extracted.kind = "pending"
  /\ extracted' = parseGeminiResponse(data)
  /\ UNCHANGED <<app, watched, callLimit, probes, workaround, storageVars, responseText, parsed, data,
                 keyFormVars, platformVars, imageVars, moderationVars>>

\* ---- common/js/storage.js: savePostedImage ----

MAX_POSTED_IMAGES == 5

\* the posted-image objects a page can pass
Images == {"imgA", "imgB"}

RECURSIVE JoinItems(_)
\* the array elements separated by commas
JoinItems(list) ==
  IF list = <<>> THEN <<>>
  ELSE IF Len(list) = 1 THEN list
  ELSE <<Head(list), ",">> \o JoinItems(Tail(list))

\* JSON.stringify of an array of posted images, as a sequence of tokens
JSONstringify(list) == <<"[">> \o JoinItems(list) \o <<"]">>

ParseFailed == [ok |-> FALSE, list |-> <<>>]

RECURSIVE ParseItems(_)
\* the elements between the brackets
ParseItems(t) ==
  IF t = <<>> THEN [ok |-> TRUE, list |-> <<>>]
  ELSE IF Head(t) \notin Images THEN ParseFailed
  ELSE IF Len(t) = 1 THEN [ok |-> TRUE, list |-> t]
  ELSE IF t[2] # "," \/ Len(t) = 2 THEN ParseFailed
  ELSE LET rest == ParseItems(Tail(Tail(t))) IN
       IF rest.ok THEN [ok |-> TRUE, list |-> <<Head(t)>> \o rest.list] ELSE ParseFailed

\* JSON.parse of a stored text: ok is FALSE where JSON.parse throws
JSONparse(t) ==
  IF Len(t) < 2 \/ Head(t) # "[" \/ t[Len(t)] # "]" THEN ParseFailed
  ELSE ParseItems(SubSeq(t, 2, Len(t) - 1))

\* stored texts that JSON.parse rejects
GarbageTexts == {<<"[", "imgA">>, <<"imgA", "]">>, <<"[", "imgA", ",", "]">>}

NoItem == [kind |-> "null", text |-> <<>>]
Item(t) == [kind |-> "string", text |-> t]

\* an array method that adds at the end
Push(list, imageData) == Append(list, imageData)

\* postedImages.unshift(imageData)
Unshift(list, imageData) == <<imageData>> \o list

\* postedImages.slice(0, MAX_POSTED_IMAGES) when the array is longer
Slice(list) ==
  IF Len(list) > MAX_POSTED_IMAGES THEN SubSeq(list, 1, MAX_POSTED_IMAGES) ELSE list

\* the array savePostedImage starts from
LoadedImages(item) ==
  IF item.kind = "null" \/ item.text = <<>> THEN <<>>
  ELSE IF JSONparse(item.text).ok THEN JSONparse(item.text).list
  ELSE <<>>

savePostedImage(imageData) ==
  /\ app = "storage"
  /\ Len(posted) < MaxPosted
  /\ postedImagesItem' =
       Item(JSONstringify(Slice(Unshift(LoadedImages(postedImagesItem), imageData))))
  /\ posted' = <<imageData>> \o posted
  /\ UNCHANGED <<app, watched, callLimit, probes, workaround, responseText, parsed, data,
                 extracted, keyFormVars, platformVars, imageVars, moderationVars>>

\* ---- api-key.js (part_008, part_010, 01multimodal-ai/js/api-key.js) ----

MASKED_KEY_DISPLAY == "MASKED"

\* texts the user can leave in #apiKeyInput, before and after String.trim
KeyTexts == {"", MASKED_KEY_DISPLAY, "sk-123", "xAIza", "AIzaKey", "AIzaNew"}
KeyInputs == [text : KeyTexts, padded : BOOLEAN]

\* input.value.trim(): the surrounding white space goes
Trim(v) == v.text

\* key.startsWith('AIza') on KeyTexts
StartsWithAIza(key) == key \in {"AIzaKey", "AIzaNew"}

KeyRejectedOnlyWhenEmpty(key) == key = ""
\* the two validation steps of saveApiKey
KeyRejected(key) ==
  \/ key = "" \/ key = MASKED_KEY_DISPLAY
  \/ ~StartsWithAIza(key)

\* the page of part_010 keeps the key form; the others remove it on success
KeepsKeyForm == app = "apiKeyManager"

\* the user edits #apiKeyInput
typeApiKey(v) ==
  /\ apiKeySection = "shown"
  /\ v # apiKeyInput
  /\ apiKeyInput' = v
  /\ UNCHANGED <<app, watched, callLimit, probes, workaround, storageVars, responseText, parsed, data,
                 extracted, storedApiKey, apiKeySection, saved, platformVars, imageVars,
                 moderationVars>>

\* click on the save button or Enter in #apiKeyInput: saveApiKey()
saveApiKey ==
  /\ apiKeySection = "shown"
  /\ saved.calls < MaxSaves
  /\ LET key == Trim(apiKeyInput) IN
     IF KeyRejected(key)
       THEN /\ saved' = [calls |-> saved.calls + 1, returned |-> FALSE]
            /\ UNCHANGED <<storedApiKey, geminiApiKey, apiKeyInput, apiKeySection,
                           uploadSectionShown>>
       ELSE /\ saved' = [calls |-> saved.calls + 1, returned |-> TRUE]
            /\ storedApiKey' = key
            /\ geminiApiKey' = key
            /\ apiKeyInput' = [text |-> MASKED_KEY_DISPLAY, padded |-> FALSE]
            /\ apiKeySection' = IF KeepsKeyForm THEN "shown" ELSE "removed"
            /\ uploadSectionShown' = (app \in ImageApps)
  /\ UNCHANGED <<app, watched, callLimit, probes, workaround, storageVars, responseText, parsed, data,
                 extracted, moderationVars, modelStatus, promptApiReady,
                 pendingModelDownload, download, downloadsStarted, uploadVars, nextCall,
                 run>>

\* ---- platform and user ----

\* triggerModelDownload: its race of LanguageModel.create against 30 s settles
DownloadSettles ==
  /\ download = "creating"
  /\ download' = "done"
  /\ UNCHANGED <<app, watched, callLimit, helperVars, probes, workaround, moderationVars, modelStatus, promptApiReady,
                 pendingModelDownload, downloadsStarted, geminiApiKey, uploadVars,
                 uploadSectionShown, nextCall, run>>

\* main (part_002): 2 s after a load that found the model "downloading" the
\* timer calls LanguageModel.create and, when a session comes back, sets
\* window.__promptApiReady and destroys the session
workaroundCreates ==
  /\ workaround = "scheduled"
  /\ workaround' = "done"
  /\ \E created \in BOOLEAN : promptApiReady' = (promptApiReady \/ created)
  /\ UNCHANGED <<app, watched, callLimit, helperVars, probes, moderationVars, modelStatus,
                 pendingModelDownload, download, downloadsStarted, geminiApiKey,
                 imageVars>>

\* the statuses the browser moves between: the model is there, or was removed
PlatformStatuses == {"available", "no"}

\* the browser's model status changes
platformChanges ==
  /\ \E a \in PlatformStatuses \ {modelStatus} : modelStatus' = a
  /\ UNCHANGED <<app, watched, callLimit, helperVars, probes, workaround, moderationVars,
                 promptApiReady, pendingModelDownload, download, downloadsStarted,
                 geminiApiKey, imageVars>>

\* clearApiKey (api-key.js)
clearApiKey ==
  /\ geminiApiKey # "null"
  /\ geminiApiKey' = "null"
  /\ storedApiKey' = "null"
  /\ apiKeyInput' = IF apiKeySection = "shown"
                      THEN [text |-> "", padded |-> FALSE] ELSE apiKeyInput
  /\ uploadSectionShown' = FALSE
  /\ UNCHANGED <<app, watched, callLimit, storageVars, responseText, parsed, data, extracted,
                 apiKeySection, saved, probes, workaround, moderationVars, modelStatus, promptApiReady,
                 pendingModelDownload, download, downloadsStarted, uploadVars, nextCall, run>>

\* ---- the state after the page's load handler ran ----

\* main (part_002) skips loadApiKey when the start-up probe says ready
SkipsApiKey(a, st) == a = "try" /\ SwitchAvailabilityClientSide(st) = "ready"

PageLoaded(apps, statuses, limit) ==
  /\ app \in apps
  /\ modelStatus \in statuses
  /\ callLimit = limit
  /\ watched \in 1..limit
  /\ promptApiReady = FALSE
  /\ pendingModelDownload =
       (app = "try" /\ SwitchAvailabilityClientSide(modelStatus) = "needsDownload")
  /\ download = "none"
  /\ downloadsStarted = 0
  /\ probes = {}
  /\ workaround =
       IF app = "try" /\ SwitchAvailabilityClientSide(modelStatus) = "downloading"
         THEN "scheduled" ELSE "none"
  /\ geminiApiKey \in (IF SkipsApiKey(app, modelStatus) THEN {"null"} ELSE {"null", "AIzaKey"})
  /\ uploadSectionShown =
       (app \in ImageApps /\ (SkipsApiKey(app, modelStatus) \/ geminiApiKey # "null"))
  /\ currentImageData = 0
  /\ currentAltText = NullText
  /\ currentAnalysisController = 0
  /\ altTextEditor = EmptyText
  /\ altTextResult = [kind |-> "initial", msg |-> "", call |-> 0, shown |-> FALSE]
  /\ altTextActionsShown = FALSE
  /\ btnRegenerateShown = FALSE
  /\ nextCall = 1
  /\ run = [c \in Calls |-> IdleRun]
  /\ comment = ""
  /\ commentShown = TRUE
  /\ btnSubmit = [shown |-> TRUE, disabled |-> TRUE]
  /\ suggestionActionsShown = FALSE
  /\ originalProblematicComment = "null"
  /\ status = NoStatus
  /\ commentsList = <<>>
  /\ nextAnalysis = 1
  /\ analysis = [c \in Analyses |-> IdleAnalysis]
  /\ lastResponse = [call |-> 0, shape |-> "none"]
  /\ approved = {}

\* no helper has been called on its own
ParserIdle ==
  /\ responseText = <<>>
  /\ parsed = [kind |-> "none"]

GeminiIdle ==
  /\ data = [kind |-> "null", candidate |-> NoCandidate]
  /\ extracted = [kind |-> "none"]

\* loadApiKey read the stored key; a page that found one removed the key
\* form (part_008) or masked the input (part_010); main (part_002) removes the
\* form when the model is ready
KeyFormLoaded ==
  /\ storedApiKey = geminiApiKey
  /\ apiKeySection =
       IF KeepsKeyForm \/ (geminiApiKey = "null" /\ ~SkipsApiKey(app, modelStatus))
         THEN "shown" ELSE "removed"
  /\ apiKeyInput = [text |-> IF KeepsKeyForm /\ geminiApiKey # "null"
                               THEN MASKED_KEY_DISPLAY ELSE "",
                    padded |-> FALSE]
  /\ saved = [calls |-> 0, returned |-> FALSE]

StorageIdle ==
  /\ postedImagesItem = NoItem
  /\ posted = <<>>

HelpersIdle == ParserIdle /\ GeminiIdle /\ KeyFormLoaded /\ StorageIdle

\* part_006's switch has 'after-download' and 'downloadable' fall through to
\* one branch: its page is explored with the second
LegacyName(a, st) == a = "try" /\ st = "after-download"

Init ==
  /\ PageLoaded(Apps, ModelStatuses, MaxCalls)
  /\ ~LegacyName(app, modelStatus)
  /\ HelpersIdle

Next ==
  \/ handleFile
  \/ regenerate
  \/ cancelImageSelection
  \/ analyzeCommentCall
  \/ \E c \in Calls : ProbeReturns(c)
  \/ \E c \in Calls : CreateSettles(c)
  \/ \E c \in Calls : PromptSettles(c)
  \/ \E c \in Calls : TimerFires(c)
  \/ \E c \in Calls : FetchSettles(c)
  \/ DownloadSettles
  \/ workaroundCreates

Spec == Init /\ [][Next]_vars

\* the image pages on a browser without window.LanguageModel: every run is the
\* cloud executor alone, and one more call is explored
CloudOnlyInit == PageLoaded(ImageApps, {"absent"}, MaxCalls + 1) /\ HelpersIdle

CloudOnlyNext ==
  \/ handleFile
  \/ regenerate
  \/ cancelImageSelection
  \/ \E c \in Calls : FetchSettles(c)

CloudOnlySpec == CloudOnlyInit /\ [][CloudOnlyNext]_vars

\* the comment form of the moderation page (part_005), which calls the cloud
\* analyzeComment only
ModerationInit ==
  PageLoaded({"moderation"}, {"absent", "available"}, MaxCalls) /\ HelpersIdle

ModerationNext ==
  \/ \E t \in UserComments \cup {""} : typeComment(t)
  \/ handleCommentSubmit
  \/ regenerateSuggestion
  \/ submitSuggestion
  \/ cancelSuggestion
  \/ \E c \in Analyses : AnalysisSettles(c)

ModerationSpec == ModerationInit /\ [][ModerationNext]_vars

\* the pages whose cloud executors read the key without checking it, with
\* clearApiKey of api-key.js, which no control of the pages calls, called by an
\* embedding script
KeyClearedInit ==
  PageLoaded({"altgen", "moderation"}, ModelStatuses, MaxCalls) /\ HelpersIdle

KeyClearedNext ==
  \/ handleFile
  \/ regenerate
  \/ cancelImageSelection
  \/ \E c \in Calls : ProbeReturns(c)
  \/ \E c \in Calls : CreateSettles(c)
  \/ \E c \in Calls : PromptSettles(c)
  \/ \E c \in Calls : FetchSettles(c)
  \/ ModerationNext
  \/ clearApiKey

KeyClearedSpec == KeyClearedInit /\ [][KeyClearedNext]_vars

\* main with alt-text-generation.js in a browser whose model status changes
PlatformInit == PageLoaded({"try"}, PlatformStatuses, MaxCalls) /\ HelpersIdle

PlatformNext ==
  \/ handleFile
  \/ regenerate
  \/ cancelImageSelection
  \/ \E c \in Calls : ProbeReturns(c)
  \/ \E c \in Calls : CreateSettles(c)
  \/ \E c \in Calls : PromptSettles(c)
  \/ \E c \in Calls : TimerFires(c)
  \/ \E c \in Calls : FetchSettles(c)
  \/ platformChanges

PlatformSpec == PlatformInit /\ [][PlatformNext]_vars

\* main with alt-text-generation.js where the 5 s timer fires once it is set and
\* every fetch settles, while LanguageModel.availability, LanguageModel.create,
\* session.prompt and the model download may stay pending for ever
TimerAndCloudInit ==
  /\ PageLoaded({"try"}, ModelStatuses, MaxCalls)
  /\ ~LegacyName(app, modelStatus)
  /\ HelpersIdle

TimerAndCloudNext ==
  \/ handleFile
  \/ regenerate
  \/ cancelImageSelection
  \/ \E c \in Calls : ProbeReturns(c)
  \/ \E c \in Calls : CreateSettles(c)
  \/ \E c \in Calls : PromptSettles(c)
  \/ \E c \in Calls : TimerFires(c)
  \/ \E c \in Calls : FetchSettles(c)
  \/ DownloadSettles
  \/ workaroundCreates

TimerAndCloudFairSpec ==
  /\ TimerAndCloudInit
  /\ [][TimerAndCloudNext]_vars
  /\ \A c \in Calls : WF_vars(TimerFires(c)) /\ WF_vars(FetchSettles(c))

\* analyzeComment of part_005 decoding each response text the model can send
ParserInit ==
  /\ PageLoaded({"moderation"}, {"absent"}, MaxCalls)
  /\ responseText \in ResponseTexts
  /\ parsed = [kind |-> "pending"]
  /\ GeminiIdle
  /\ KeyFormLoaded
  /\ StorageIdle

ParserNext == analyzeCommentDecodes

ParserSpec == ParserInit /\ [][ParserNext]_vars

\* parseGeminiResponse on each response object
GeminiInit ==
  /\ PageLoaded({"moderation"}, {"absent"}, MaxCalls)
  /\ data \in GeminiData
  /\ extracted = [kind |-> "pending"]
  /\ ParserIdle
  /\ KeyFormLoaded
  /\ StorageIdle

GeminiNext == parseGeminiResponseReturns

GeminiSpec == GeminiInit /\ [][GeminiNext]_vars

\* the key form of a page that removes it on success (part_008) and of one
\* that keeps it (part_010)
KeyFormInit == PageLoaded({"altgen", "apiKeyManager"}, {"absent"}, MaxCalls) /\ HelpersIdle

KeyFormNext ==
  \/ \E v \in KeyInputs : typeApiKey(v)
  \/ saveApiKey

KeyFormSpec == KeyFormInit /\ [][KeyFormNext]_vars

\* savePostedImage called again and again on what localStorage holds at first:
\* nothing, an empty string or a text that JSON.parse rejects
StorageInit ==
  /\ PageLoaded({"storage"}, {"absent"}, MaxCalls)
  /\ ParserIdle /\ GeminiIdle /\ KeyFormLoaded
  /\ postedImagesItem \in {NoItem, Item(<<>>)} \cup {Item(t) : t \in GarbageTexts}
  /\ posted = <<>>

StorageNext == \E imageData \in Images : savePostedImage(imageData)

StorageSpec == StorageInit /\ [][StorageNext]_vars

\* the comment form on the page main (part_002) loaded: when the start-up probe
\* says ready the load handler removes #apiKeySection and skips loadApiKey, so a
\* stored key is not read; otherwise loadApiKey reads it
StartedReady == SwitchAvailabilityClientSide(modelStatus) = "ready"

MainLoadedInit ==
  /\ PageLoaded({"moderation"}, {"absent", "available"}, MaxCalls)
  /\ StartedReady => geminiApiKey = "null"
  /\ storedApiKey \in (IF StartedReady THEN {"null", "AIzaKey"} ELSE {geminiApiKey})
  /\ apiKeySection = IF StartedReady \/ geminiApiKey # "null" THEN "removed" ELSE "shown"
  /\ apiKeyInput = [text |-> "", padded |-> FALSE]
  /\ saved = [calls |-> 0, returned |-> FALSE]
  /\ ParserIdle /\ GeminiIdle /\ StorageIdle

MainLoadedSpec == MainLoadedInit /\ [][ModerationNext]_vars

\* ---- properties ----

\* the run whose history is recorded
W == run[watched]

Settled(r) == r.pc = "done"

NoKeyMessage == Err("Please configure your Google AI API key first")
CancelledMessage == Err("Operation was cancelled")

C2_PreferenceOrder ==
  W.devOut.kind = "ok" =>
    (Settled(W) /\ W.result = W.devOut /\ W.cloudCalls = 0 /\ W.devCalls = 1)

C2_Witness ==
  /\ W.status = "ready" /\ W.devOut = Ok("DEV")
  /\ Settled(W) /\ W.result = Ok("DEV")

\* C3 (P3): in tryClientSideThenServerSide, once the on-device attempt threw,
\* answered with the "did not see the image" text or lost the race against the
\* timer, the cloud executor has been invoked exactly once, and the run settles
\* with what the cloud executor returned or threw.
C3_FallbackOnFailure ==
  (app = "try" /\ W.devOut.kind = "err") =>
    /\ W.cloudCalls = 1
    /\ W.pc \in {"cloud", "done"}
    /\ Settled(W) => (W.cloudOut.kind # "none" /\ W.result = W.cloudOut)

C3_Witness ==
  /\ app = "try"
  /\ W.devOut = Err("Prompt API did not process the image successfully")
  /\ Settled(W) /\ W.result = Ok("CLOUD") /\ W.cloudCalls = 1

\* C4 as stated (P4): the result of a call of generateAltText that had not
\* settled when a later call was made is never written to currentAltText or to
\* the alt-text editor.
C4_SupersededNeverDelivered ==
  W.superseded => (currentAltText.call # watched /\ altTextEditor.call # watched)

\* C5 as stated: at every moment at most one attempt that was not cancelled is
\* in flight for image description, and at most one for comment moderation.
C5_AtMostOneInFlight ==
  /\ app \in ImageApps =>
       Cardinality({c \in Calls : InFlight(run[c]) /\ ~run[c].aborted}) <= 1
  /\ Cardinality({c \in Analyses : analysis[c].pc = "fetch"}) <= 1

\* C6 as stated (P5): a cloud executor invoked while no API key is stored fails
\* with the configuration error, and no fetch is issued while no key is stored.
C6_CredentialGating ==
  [][ /\ (run'[watched].fetches > W.fetches) => geminiApiKey # "null"
      /\ \A c \in Analyses :
           (analysis[c].pc = "idle" /\ analysis'[c].pc = "fetch") => geminiApiKey # "null"
      /\ (run'[watched].cloudCalls > W.cloudCalls /\ geminiApiKey = "null") =>
           (Settled(run'[watched]) /\ run'[watched].result = NoKeyMessage) ]_vars

\* C7: a run whose cloud executor failed has settled with that same error,
\* what the result area shows about that call is that error's message (an abort
\* shows as cancelled), and no run invokes an executor twice.
C7_CloudFailureTerminal ==
  /\ W.devCalls <= 1 /\ W.cloudCalls <= 1
  /\ W.cloudOut.kind = "err" =>
       /\ Settled(W) /\ W.result = W.cloudOut
       /\ (app \in ImageApps /\ altTextResult.call = watched /\ altTextResult.shown) =>
            altTextResult = ErrorResult(watched, W.cloudOut)

C7_Witness ==
  /\ W.cloudOut = Err("API error") /\ Settled(W) /\ W.result = Err("API error")
  /\ altTextResult = [kind |-> "error", msg |-> "API error", call |-> watched,
                       shown |-> TRUE]

\* C8 as stated: a run whose probe reported needsDownload or downloading does
\* not invoke the on-device executor and goes to the cloud executor.
C8_DownloadStatesSkipDevice ==
  W.status \in {"needsDownload", "downloading"} =>
    (W.devCalls = 0 /\ W.cloudCalls = 1)

\* C8 amended: on needsDownload or downloading tryClientSideThenServerSide
\* still invokes the on-device executor once, under its timer, and invokes the
\* cloud executor exactly when that attempt threw or timed out; generateAltText
\* of alt-text-gen.js does not invoke the on-device executor.
C8_DownloadStatesTryDeviceFirst ==
  W.status \in {"needsDownload", "downloading"} =>
    IF app = "try"
      THEN /\ W.devCalls = 1
           /\ W.cloudCalls = (IF W.devOut.kind = "err" THEN 1 ELSE 0)
           /\ W.devOut.kind = "none" => W.pc = "race"
      ELSE W.devCalls = 0

C8_Witness ==
  /\ app = "try" /\ W.status = "downloading"
  /\ W.devCalls = 1 /\ W.devOut = Err("Client-side timeout")
  /\ W.cloudCalls = 1 /\ Settled(W)

\* C9 as stated: every text in the displayed comments list was the subject of a
\* completed analysis whose verdict was not problematic.
C9_PostedWereApproved ==
  \A i \in 1..Len(commentsList) : commentsList[i] \in approved

\* C10 as stated: when the response of an analysis cannot be decoded, or decodes
\* to an object without isProblematic, the page shows an error and no comment
\* is posted.
C10_MalformedIsAnError ==
  [][ (lastResponse'.call # lastResponse.call
        /\ lastResponse'.shape \in {"undecodable", "missingField"}) =>
       (status'.type = "error" /\ commentsList' = commentsList) ]_vars

\* n words of prose
Prose(n) == [i \in 1..n |-> "p"]

\* the JSON object with the members isProblematic, reason and suggestion
ThreeFieldObject == <<"{", "T", "}">>

\* no part of the text t is a JSON object
HoldsNoObject(t) ==
  \A i \in 1..Len(t) : \A j \in i..Len(t) : JsonParse(SubSeq(t, i, j)).kind = "err"

Decoded == parsed.kind \in {"ok", "err"}

\* C11 (P6): from a response text that is prose followed by one JSON object with
\* the three members analyzeComment returns exactly that object, and on a
\* response text that holds no JSON object it throws the "Invalid response
\* format" error.
C11_ModerationParsing ==
  Decoded =>
    /\ \A n \in 0..(MaxLen - Len(ThreeFieldObject)) :
         responseText = Prose(n) \o ThreeFieldObject =>
           parsed = Verdict("true", SuggestedText)
    /\ HoldsNoObject(responseText) =>
         parsed \in {Failure("Invalid response format from AI: no JSON object found"),
                     Failure("Invalid response format from AI: SyntaxError")}

C11_Witness ==
  /\ responseText = <<"p", "{", "T", "}">>
  /\ parsed = Verdict("true", SuggestedText)

\* JSON objects that carry a verdict
VerdictObjects == {<<"{", "T", "}">>, <<"{", "F", "}">>}

\* C12 as stated: when the response text is prose, then a JSON object, then
\* further text (prose or braces), analyzeComment returns that first object.
C12_FirstBalancedBlock ==
  Decoded =>
    \A o \in VerdictObjects : \A n \in 0..MaxLen :
      ( /\ Len(responseText) > n + Len(o)
        /\ SubSeq(responseText, 1, n) = Prose(n)
        /\ SubSeq(responseText, n + 1, n + Len(o)) = o )
      => parsed = JsonParse(o)

\* C13 as stated: the result area never shows an error-state message written by
\* a call of generateAltText whose controller was aborted.
C13_AbortedNeverShownAsError ==
  (W.aborted /\ altTextResult.call = watched /\ altTextResult.shown) =>
    altTextResult.kind \notin {"error", "cancelled"}

ActivationErrors == {Err("User interaction required")}

C15_ProbeIdempotent ==
  \A p \in probes : \A q \in probes : p.platform = q.platform => p.status = q.status

\* C16 as stated: checkPromptApiAvailability answers from the platform's status
\* at the time of the call: it does not report the model as ready when the
\* platform has no model.
C16_ProbeIsFresh ==
  \A p \in probes : p.platform \in {"absent", "no"} => p.status = "unavailable"

\* C17: the session an on-device executor invocation created is live only
\* while the invocation awaits session.prompt; once the invocation has
\* returned or thrown, the session it created has been destroyed.
C17_SessionReleased ==
  /\ W.session = "live" => W.dev = "prompt"
  /\ W.dev = "finished" => W.session \in {"none", "destroyed"}
  /\ W.session = "destroyed" => W.destroys >= 1
  /\ W.session = "none" => W.dev \in {"none", "create", "finished"}

C17_Witness ==
  /\ W.creates = 1 /\ W.dev = "finished"
  /\ W.devOut = Err("prompt failed")
  /\ W.session = "destroyed" /\ W.destroys = 1

\* the fields of the response in the order the claim gives them
FieldsInOrder(d) ==
  <<PartsText(d.candidate), d.candidate.content.text, d.candidate.text,
    d.candidate.output>>

PresentFields(d) == {i \in 1..4 : Truthy(FieldsInOrder(d)[i])}

\* C18: parseGeminiResponse returns the first non-empty one of: the first
\* non-empty text of candidates[0].content.parts, content.text, candidate.text,
\* candidate.output, whatever finishReason says, and throws exactly when none
\* of them is present.
C18_FieldOrder ==
  extracted.kind \in {"ok", "err"} =>
    IF data.kind = "candidates" /\ PresentFields(data) # {}
      THEN extracted = Ok(FieldsInOrder(data)[Lowest(PresentFields(data))])
      ELSE extracted.kind = "err"

C18_Witness ==
  /\ data.kind = "candidates"
  /\ data.candidate.finishReason = "MAX_TOKENS"
  /\ data.candidate.content.present
  /\ data.candidate.content.parts = [kind |-> "array", items |-> <<"", "PART2">>]
  /\ data.candidate.content.text = "CONTENT_TEXT"
  /\ data.candidate.output = "OUTPUT"
  /\ extracted = Ok("PART2")

\* the keys of KeyTexts that are not empty, not the mask, and start with 'AIza'
AcceptableKeys == {"AIzaKey", "AIzaNew"}

\* C19: a call of saveApiKey with an acceptable key (after trimming) returns
\* true and leaves that key in memory and in localStorage; with any other key
\* it returns false and leaves both as they were.
C19_SaveApiKey ==
  [][ saved'.calls # saved.calls =>
        IF apiKeyInput.text \in AcceptableKeys
          THEN /\ saved'.returned
               /\ geminiApiKey' = apiKeyInput.text
               /\ storedApiKey' = apiKeyInput.text
          ELSE /\ ~saved'.returned
               /\ geminiApiKey' = geminiApiKey
               /\ storedApiKey' = storedApiKey ]_vars

C19_Witness ==
  /\ saved = [calls |-> 2, returned |-> TRUE]
  /\ geminiApiKey = "AIzaNew" /\ storedApiKey = "AIzaNew"

WatchedCallStarts == W.pc = "idle" /\ run'[watched].pc # "idle"

\* C21: triggerModelDownload is started at most once over all runs; the step
\* that starts it finds the pending flag set and clears it; the call that finds
\* the flag set with user activation active starts it, and a call that finds the
\* flag set without user activation leaves the flag set and starts nothing.
C21_DownloadStartedOnce ==
  /\ [](downloadsStarted <= 1)
  /\ [][/\ downloadsStarted' # downloadsStarted =>
            /\ pendingModelDownload /\ ~pendingModelDownload'
            /\ downloadsStarted' = downloadsStarted + 1
        /\ WatchedCallStarts =>
            /\ run'[watched].attempt = "none" <=> ~pendingModelDownload
            /\ run'[watched].attempt = "active" =>
                  /\ ~pendingModelDownload'
                  /\ downloadsStarted' = downloadsStarted + 1
            /\ run'[watched].attempt # "active" =>
                  UNCHANGED <<pendingModelDownload, downloadsStarted>>]_vars

\* the first call found the flag set without user activation and the second
\* call, with activation, started the download
C21_Witness ==
  /\ watched = 1 /\ nextCall = 3
  /\ W.attempt = "inactive"
  /\ downloadsStarted = 1 /\ ~pendingModelDownload

\* C22: in generateAltText of alt-text-gen.js, from the moment the controller is
\* aborted while the run awaits the probe or the on-device attempt, no step
\* invokes the cloud executor for that run, and when the run settles it rejects.
C22_AbortedNeverFallsBack ==
  [][(app = "altgen" /\ W.aborted /\ W.pc \in {"probe", "device"}) =>
       /\ run'[watched].cloudCalls = 0
       /\ run'[watched].pc \in {"probe", "device", "done"}
       /\ run'[watched].pc = "done" => run'[watched].result.kind = "err"]_vars

\* a run aborted during its on-device attempt has rejected with the AbortError
\* of session.prompt, the cloud executor not invoked
C22_Witness ==
  /\ app = "altgen"
  /\ W.aborted /\ W.pc = "done"
  /\ W.devCalls = 1 /\ W.devOut = Err("AbortError")
  /\ W.cloudCalls = 0
  /\ W.result = Err("AbortError")

\* C23 as stated: createPromptApiSession never rejects; it resolves to a session
\* or to null.
C23_SessionOrNull == W.createResult \in {"none", "session", "null"}

\* C24 as stated: in the hybrid analyzeComment, when the on-device model is
\* present and its response text holds a well-formed JSON object, the run
\* returns the on-device verdict and makes no cloud call.
C24_DeviceVerdictReturned ==
  (app = "hybridModeration" /\ W.response = "json") =>
    /\ W.devOut.kind = "ok"
    /\ W.cloudCalls = 0
    /\ Settled(W) /\ W.result = W.devOut

\* the n most recently saved images, newest first
MostRecent(n) == IF Len(posted) > n THEN SubSeq(posted, 1, n) ELSE posted

\* C25: once savePostedImage has been called, the text stored under
\* 'postedImages' parses to a list of at most MAX_POSTED_IMAGES entries that is
\* exactly the most recently saved images, newest first; this includes the
\* calls that found a stored text that does not parse.
C25_PostedImagesBounded ==
  posted # <<>> =>
    /\ postedImagesItem.kind = "string"
    /\ JSONparse(postedImagesItem.text).ok
    /\ Len(JSONparse(postedImagesItem.text).list) <= MAX_POSTED_IMAGES
    /\ JSONparse(postedImagesItem.text).list = MostRecent(MAX_POSTED_IMAGES)

\* six images were saved and the list holds the five newest of them
C25_Witness ==
  /\ posted = <<"imgB", "imgB", "imgA", "imgB", "imgA", "imgA">>
  /\ postedImagesItem = Item(JSONstringify(<<"imgB", "imgB", "imgA", "imgB", "imgA">>))

\* C26 as stated: after the start-up path that found the model ready and removed
\* the API-key section, with no API key stored, the comment submit button is
\* enabled whenever the comment form is shown with a non-empty comment.
C26_SubmitEnabledWithoutKey ==
  (StartedReady /\ apiKeySection = "removed" /\ storedApiKey = "null"
     /\ commentShown /\ btnSubmit.shown /\ comment # "") => ~btnSubmit.disabled

\* C27 as stated: while the latest call of generateAltText is in flight, was not
\* aborted, and its image is still selected, currentAnalysisController holds
\* that call's controller.
C27_ControllerOfCallInFlight ==
  (app \in ImageApps /\ InFlight(W) /\ ~W.aborted
     /\ nextCall = watched + 1 /\ currentImageData # 0) =>
    currentAnalysisController = watched

\* C28 as stated: while no image is selected (after cancelImageSelection and
\* before the next selection) currentAltText is null, the alt-text editor is
\* empty and the editing actions are hidden, whenever the analyses started
\* before the cancel settle.
C28_CancelledResultDiscarded ==
  (app \in ImageApps /\ currentImageData = 0) =>
    /\ currentAltText = NullText
    /\ altTextEditor = EmptyText
    /\ ~altTextActionsShown

\* the suggestion-editing UI is hidden and no original comment is kept
SuggestionDismissed == ~suggestionActionsShown /\ originalProblematicComment = "null"

\* no comment the user submitted is being analysed
NoSubmitPending ==
  \A c \in Analyses :
    ~(analysis[c].pc = "fetch" /\ analysis[c].by = "handleCommentSubmit")

\* C29 as stated: once the suggestion-editing UI is hidden with
\* originalProblematicComment null (as cancelSuggestion leaves them), they stay
\* so as long as no submitted comment is being analysed, whatever analysis
\* settles.
C29_CancelledSuggestionStaysHidden ==
  [][(app = "moderation" /\ SuggestionDismissed /\ NoSubmitPending) =>
       (~suggestionActionsShown' /\ originalProblematicComment' = "null")]_vars

\* C30 as stated: over one invocation of an on-device executor, destroy is
\* called at most once on the session it created.
C30_DestroyedAtMostOnce == W.destroys <= 1

TypeOK ==
  /\ app \in Apps \cup {"moderation", "apiKeyManager", "storage"}
  /\ nextAnalysis \in 1..(MaxAnalyses + 1)
  /\ Len(commentsList) <= MaxAnalyses
  /\ nextCall \in 1..(callLimit + 1)
  /\ currentAnalysisController \in 0..callLimit

====
